---- MODULE Spec2Model ----
(***************************************************************************)
(* Model of the download manager core of halibiram/tomato:                 *)
(*   download_manager/downloader.py     (class Downloader, the pool)       *)
(*   download_manager/queue_manager.py  (class QueueManager)               *)
(*   download_manager/storage_optimizer.py (cleanup collaborator)          *)
(* Every lock section of the code is one atomic step; I/O that precedes a  *)
(* lock section and touches no shared state is part of the same step.      *)
(* Spec is the pool driven directly by its callers; TransferSpec is the    *)
(* pool with a single transfer and a richer response; QueueSpec is the     *)
(* Queue Manager driving the pool through its reconciliation loop;        *)
(* SubmitSpec is the pool receiving several submits; ControlSpec is the    *)
(* Queue Manager started and stopped by several threads, where every line  *)
(* of the lock-free start_processing and stop_processing is a step.        *)
(* UserSpec is the Queue Manager and the pool with users who also cancel,  *)
(* pause and resume the submitted tasks; QueueFairSpec, ControlFairSpec    *)
(* and FairSpec add the fair scheduling of the threads.                    *)
(***************************************************************************)
EXTENDS Integers, Sequences, FiniteSets, TLC

\* ---------------------------------------------------------------- bounds
MaxTasks   == 1     \* Spec: handles issued to direct callers of start_download
MaxChunks  == 1     \* Spec: chunks one response yields
MaxChunk   == 1     \* Spec: largest chunk length (0 is an empty chunk)
MaxTotal   == 1     \* Spec: largest declared content-length (0 is unknown)
TChunks    == 2     \* TransferSpec: chunks one response yields
TChunk     == 2     \* TransferSpec: largest chunk length
TTotal     == 2     \* TransferSpec: largest declared content-length
MaxSubmits == 2     \* SubmitSpec: calls of start_download
MaxAdds    == 2     \* QueueSpec: calls of add_download
MaxWorkers == 2     \* QueueSpec: largest num_workers the pool is built with
MaxPriority == 1    \* QueueSpec: priorities are 0..MaxPriority
QChunks    == 1     \* QueueSpec: chunks one response yields (length 1, total 0)
MaxCallers == 2     \* ControlSpec: threads calling start_processing/stop_processing
MaxLoops   == 2     \* ControlSpec: loop threads start_processing creates
CAdds      == 1     \* ControlSpec: calls of add_download
UAdds      == 2     \* UserSpec: calls of add_download

\* What the fetch collaborator may do in a run: chunks per response, chunk
\* lengths, declared totals, and the exceptions the environment raises.
ExcClasses == {"OSError", "RequestException", "Exception"}
PoolFetch ==
    [chunks |-> MaxChunks, chunk |-> MaxChunk, total |-> MaxTotal, raises |-> ExcClasses]
TransferFetch ==
    [chunks |-> TChunks, chunk |-> TChunk, total |-> TTotal, raises |-> ExcClasses]
QueueFetch ==
    [chunks |-> QChunks, chunk |-> 1, total |-> 0, raises |-> {"Exception"}]

\* ------------------------------------------------------------- variables
VARIABLES
    num_workers,      \* Downloader.num_workers (constructor argument)
    download_tasks,   \* Downloader.download_tasks: handle -> task record
    threads,          \* per handle: the locals of its _download_file thread
    cleanup_calls,    \* per handle: calls of cleanup_incomplete_download(filepath)
    file_exists,      \* per handle: the destination file exists on disk
    cancel_from,      \* per handle: the status cancel_download moved to 'cancelling'
    calls_under_lock, \* the calls made so far while the caller held a lock: <<lock, callee>>
    pending_queue,    \* QueueManager.pending_queue
    active_downloads, \* QueueManager.active_downloads: handle -> entry
    queue_lock,       \* QueueManager.queue_lock: 0 or the loop thread holding it
    qm_id_counter,    \* QueueManager._qm_id_counter
    now,              \* the last value time.time() returned
    stop_event,       \* QueueManager.stop_event
    processing_thread,\* QueueManager.processing_thread: 0 (None) or a loop thread
    loops,            \* per loop thread: its position in _process_queue_loop
    completed_or_failed_downloader_ids, \* per loop thread: that local of its iteration
    remove_result,    \* the last value remove_download returned ("none" before any call)
    callers,          \* per caller thread: its position in start_processing/stop_processing,
                      \* its join target, and whether stop_processing was called meanwhile
    joined,           \* the last stop_processing to return found its join target dead,
                      \* and start_processing has not been called since
    started           \* a start_processing call has returned normally, and
                      \* stop_processing has not been called since that call began

poolVars == <<download_tasks, threads, cleanup_calls, file_exists, cancel_from>>
queueVars == <<pending_queue, active_downloads, queue_lock, qm_id_counter, now,
               stop_event, processing_thread, loops, completed_or_failed_downloader_ids,
               remove_result, callers, joined, started>>
controlVars == <<callers, joined, started>>
vars == <<num_workers, download_tasks, threads, cleanup_calls, file_exists, cancel_from,
          calls_under_lock,
          pending_queue, active_downloads, queue_lock, qm_id_counter, now,
          stop_event, processing_thread, loops, completed_or_failed_downloader_ids,
          remove_result, callers, joined, started>>

\* ------------------------------------------------------------ exceptions
\* The classes an exception raised inside _download_file can have.
\* requests.exceptions.RequestException derives from IOError, so the first
\* except clause (IOError) also matches a transport error.
IsIOError(e) == e \in {"OSError", "RequestException"}
IsRequestException(e) == e = "RequestException"

\* The except clause that handles e: the first one, in source order, that matches.
Handler(e) ==
    IF IsIOError(e) THEN "io"
    ELSE IF IsRequestException(e) THEN "request"
    ELSE "unexpected"

\* The error string each handler stores: a prefix and the exception's message.
NoError == <<>>
ErrorText(e) ==
    CASE Handler(e) = "io"         -> <<"File/Directory error: ", e>>
      [] Handler(e) = "request"    -> <<"", e>>
      [] Handler(e) = "unexpected" -> <<"Unexpected error during download: ", e>>

\* --------------------------------------------------------------- helpers
TerminalStatuses == {"completed", "failed", "cancelled"}
Known(h) == h \in DOMAIN download_tasks

\* A progress value is a fraction in lowest terms, <<numerator, denominator>>
RECURSIVE GCD(_, _)
GCD(a, b) == IF b = 0 THEN a ELSE GCD(b, a % b)
Fraction(n, d) == <<n \div GCD(n, d), d \div GCD(n, d)>>
Percent(n) == <<n, 1>>

\* Faulty variant: floor division, the ratio is 0 until the last byte
PercentageFloorDiv(bytes, total) == Percent((bytes \div total) * 100)

\* (bytes_downloaded / total_size) * 100
Percentage(bytes, total) == Fraction(bytes * 100, total)

NewTask ==
    [status |-> "pending", error |-> NoError, progress |-> Percent(0),
     bytes_downloaded |-> 0, total_size |-> 0]

\* The locals of _download_file; raised is the exception that ended the try block.
NewThread ==
    [pc |-> "start", bytes_downloaded |-> 0, total_size |-> 0,
     chunk |-> 0, received |-> 0, raised |-> "none"]

\* The thread has returned: its locals are gone.
Returned(th) == [NewThread EXCEPT !.pc = "done", !.raised = th.raised]

SetStatus(h, s) == [download_tasks EXCEPT ![h].status = s]

\* StorageOptimizer.cleanup_incomplete_download(filepath) -> delete_file
Cleanup(h) ==
    /\ cleanup_calls' = [cleanup_calls EXCEPT ![h] = @ + 1]
    /\ file_exists' = [file_exists EXCEPT ![h] = FALSE]

NoCleanup == UNCHANGED <<cleanup_calls, file_exists>>

\* A call of callee made inside a 'with lock:' block of the caller
CallUnder(lock, callee) == calls_under_lock' = calls_under_lock \cup {<<lock, callee>>}
NoCallUnderLock == UNCHANGED calls_under_lock

\* Faulty variant: the cleanup collaborator calls back into the Queue Manager
AcquiresCallingBack(callee) ==
    IF callee \in {"start_download", "get_status", "cancel_download"} THEN {"lock"}
    ELSE IF callee = "cleanup_incomplete_download" THEN {"queue_lock"}
    ELSE {}

\* The locks a callee takes itself: the pool's methods take the pool lock in
\* a 'with self.lock:' block, the storage optimizer and requests take none.
Acquires(callee) ==
    IF callee \in {"start_download", "get_status", "cancel_download"} THEN {"lock"}
    ELSE {}

\* ------------------------------------------------- Downloader operations
NextHandle == Len(download_tasks) + 1

\* start_download: a new handle, the record created 'pending', set to
\* 'downloading' with its thread, then thread.start().
StartDownloadEffect(h) ==
    /\ download_tasks' = Append(download_tasks, [NewTask EXCEPT !.status = "downloading"])
    /\ threads' = Append(threads, NewThread)
    /\ cleanup_calls' = Append(cleanup_calls, 0)
    /\ file_exists' = Append(file_exists, FALSE)
    /\ cancel_from' = Append(cancel_from, "none")

\* the transfers whose thread has not returned
Running == {h \in DOMAIN threads : threads[h].pc # "done"}

\* Faulty variant: a submit waits for a free worker
StartDownloadBounded ==
    /\ Cardinality(Running) < num_workers
    /\ StartDownloadEffect(NextHandle)
    /\ UNCHANGED <<calls_under_lock, num_workers, queueVars>>

\* start_download(url, filepath): no condition, no capacity test
StartDownload ==
    /\ StartDownloadEffect(NextHandle)
    /\ UNCHANGED <<calls_under_lock, num_workers, queueVars>>

\* Faulty variant: the terminal check dropped, anything but 'cancelling' is re-opened
CancelStatusReopen(s) == "cancelling"

\* Faulty variant: a second cancel forces a task being cancelled to 'cancelled'
CancelStatusForcing(s) ==
    IF s \notin {"completed", "failed", "cancelled", "cancelling"} THEN "cancelling"
    ELSE "cancelled"

CancelStatus(s) ==
    IF s \notin {"completed", "failed", "cancelled", "cancelling"} THEN "cancelling"
    ELSE IF s = "cancelling" THEN "cancelling"
    ELSE "cancelled"

\* Faulty variant: cancel also resets the record's error and progress
CancelEffectClearing(h) ==
    /\ download_tasks' =
        IF Known(h)
        THEN [download_tasks EXCEPT ![h].status = CancelStatus(@),
                                    ![h].error = NoError, ![h].progress = Percent(0)]
        ELSE download_tasks
    /\ cancel_from' =
        IF Known(h) /\ download_tasks[h].status \notin TerminalStatuses \cup {"cancelling"}
        THEN [cancel_from EXCEPT ![h] = download_tasks[h].status]
        ELSE cancel_from
    /\ UNCHANGED <<threads, cleanup_calls, file_exists>>

\* Faulty variant: cancel of the newest task, once terminal, drops its record
CancelEffectEvicting(h) ==
    IF Known(h) /\ h = Len(download_tasks) /\ download_tasks[h].status \in TerminalStatuses
    THEN /\ download_tasks' = SubSeq(download_tasks, 1, h - 1)
         /\ threads' = SubSeq(threads, 1, h - 1)
         /\ cleanup_calls' = SubSeq(cleanup_calls, 1, h - 1)
         /\ file_exists' = SubSeq(file_exists, 1, h - 1)
         /\ cancel_from' = SubSeq(cancel_from, 1, h - 1)
    ELSE /\ download_tasks' =
             IF Known(h) THEN SetStatus(h, CancelStatus(download_tasks[h].status))
             ELSE download_tasks
         /\ cancel_from' =
             IF Known(h) /\ download_tasks[h].status \notin TerminalStatuses \cup {"cancelling"}
             THEN [cancel_from EXCEPT ![h] = download_tasks[h].status]
             ELSE cancel_from
         /\ UNCHANGED <<threads, cleanup_calls, file_exists>>

\* cancel_download(h), as far as the pool's state goes
CancelEffect(h) ==
    /\ download_tasks' =
        IF Known(h) THEN SetStatus(h, CancelStatus(download_tasks[h].status))
        ELSE download_tasks
    /\ cancel_from' =
        IF Known(h) /\ download_tasks[h].status \notin TerminalStatuses \cup {"cancelling"}
        THEN [cancel_from EXCEPT ![h] = download_tasks[h].status]
        ELSE cancel_from
    /\ UNCHANGED <<threads, cleanup_calls, file_exists>>

CancelDownload(h) ==
    /\ CancelEffect(h)
    /\ UNCHANGED <<calls_under_lock, num_workers, queueVars>>

\* Faulty variant: anything not yet terminal can be paused
PauseStatusAny(s) == IF s \in TerminalStatuses THEN s ELSE "paused"

PauseStatus(s) ==
    IF s = "downloading" THEN "paused"
    ELSE IF s = "pending" THEN "paused"
    ELSE s

PauseDownload(h) ==
    /\ download_tasks' =
        IF Known(h) THEN SetStatus(h, PauseStatus(download_tasks[h].status))
        ELSE download_tasks
    /\ UNCHANGED <<threads, cleanup_calls, file_exists, cancel_from, calls_under_lock,
                   num_workers, queueVars>>

\* Faulty variant: resume also re-queues a failed task
ResumeStatusRetry(s) == IF s \in {"paused", "failed"} THEN "pending" ELSE s

ResumeStatus(s) == IF s = "paused" THEN "pending" ELSE s

\* Faulty variant: resume starts the count again from zero
ResumeDownloadRestarting(h) ==
    /\ download_tasks' =
        IF Known(h) /\ download_tasks[h].status = "paused"
        THEN [download_tasks EXCEPT ![h].status = "pending", ![h].bytes_downloaded = 0,
                                    ![h].progress = Percent(0)]
        ELSE download_tasks
    /\ UNCHANGED <<threads, cleanup_calls, file_exists, cancel_from, calls_under_lock,
                   num_workers, queueVars>>

ResumeDownload(h) ==
    /\ download_tasks' =
        IF Known(h) THEN SetStatus(h, ResumeStatus(download_tasks[h].status))
        ELSE download_tasks
    /\ UNCHANGED <<threads, cleanup_calls, file_exists, cancel_from, calls_under_lock,
                   num_workers, queueVars>>

\* get_status: a copy of the record, or None
GetStatus(h) == IF Known(h) THEN download_tasks[h] ELSE "None"

\* -------------------------------------------------- the transfer thread
AtPc(h, p) == h \in DOMAIN threads /\ threads[h].pc = p

\* 'cancelling' seen inside a lock section: 'cancelled', cleanup, return
FinishCancelled(h) ==
    /\ download_tasks' = SetStatus(h, "cancelled")
    /\ threads' = [threads EXCEPT ![h] = Returned(@)]
    /\ Cleanup(h)
    /\ CallUnder("lock", "cleanup_incomplete_download")

\* Faulty variant: the IOError handler goes on to the cleanup as well
AfterHandlerCleaning(e) ==
    CASE Handler(e) = "io"         -> "request_cleanup"
      [] Handler(e) = "request"    -> "request_cleanup"
      [] Handler(e) = "unexpected" -> "unexpected_cleanup"

\* pc after the lock section of the handler chosen for e
AfterHandler(e) ==
    CASE Handler(e) = "io"         -> "done"
      [] Handler(e) = "request"    -> "request_cleanup"
      [] Handler(e) = "unexpected" -> "unexpected_cleanup"

\* An exception e raised in the try block, and the lock section of its handler.
Raise(h, e) ==
    /\ download_tasks' = [download_tasks EXCEPT ![h].status = "failed",
                                                ![h].error = ErrorText(e)]
    /\ threads' = [threads EXCEPT ![h] =
                     IF AfterHandler(e) = "done"
                     THEN Returned([@ EXCEPT !.raised = e])
                     ELSE [@ EXCEPT !.pc = AfterHandler(e), !.raised = e]]
    /\ NoCleanup
    /\ NoCallUnderLock

\* lines 22-30
ThreadStart(h) ==
    /\ AtPc(h, "start")
    /\ download_tasks' =
         IF download_tasks[h].status = "pending" THEN SetStatus(h, "downloading")
         ELSE download_tasks
    /\ threads' = [threads EXCEPT ![h].pc = "fetch"]
    /\ NoCleanup
    /\ NoCallUnderLock

\* lines 34-56: makedirs, requests.get, raise_for_status, the header lock section
ThreadFetch(h, lim) ==
    /\ AtPc(h, "fetch")
    /\ \/ \E e \in lim.raises : Raise(h, e)
       \/ \E total \in 0..lim.total :
            IF download_tasks[h].status = "cancelling"
            THEN FinishCancelled(h)
            ELSE /\ download_tasks' = [download_tasks EXCEPT ![h].total_size = total,
                                                             ![h].progress = Percent(0),
                                                             ![h].bytes_downloaded = 0]
                 /\ threads' = [threads EXCEPT ![h].pc = "open", ![h].total_size = total]
                 /\ NoCleanup
                 /\ NoCallUnderLock

\* line 60: open(filepath, 'wb')
ThreadOpen(h, lim) ==
    /\ AtPc(h, "open")
    /\ \/ "OSError" \in lim.raises /\ Raise(h, "OSError")
       \/ /\ threads' = [threads EXCEPT ![h].pc = "iter"]
          /\ file_exists' = [file_exists EXCEPT ![h] = TRUE]
          /\ UNCHANGED <<download_tasks, cleanup_calls, calls_under_lock>>

\* lines 61-72: the next chunk of iter_content and the checkpoint lock section;
\* the end of the stream leaves the loop and closes the file.
ThreadNextChunk(h, lim) ==
    /\ AtPc(h, "iter")
    /\ \/ \E e \in lim.raises \ {"OSError"} : Raise(h, e)
       \/ /\ threads' = [threads EXCEPT ![h].pc = "post", ![h].chunk = 0]
          /\ UNCHANGED <<download_tasks, cleanup_calls, file_exists, calls_under_lock>>
       \/ /\ threads[h].received < lim.chunks
          /\ \E len \in 0..lim.chunk :
               IF download_tasks[h].status = "cancelling"
               THEN FinishCancelled(h)
               ELSE /\ threads' = [threads EXCEPT ![h].pc = IF len > 0 THEN "write" ELSE "iter",
                                                  ![h].chunk = len, ![h].received = @ + 1]
                    /\ UNCHANGED <<download_tasks, cleanup_calls, file_exists, calls_under_lock>>

\* lines 88-90: the progress written with the byte count
WrittenProgress(bytes, total, old) == IF total > 0 THEN Percentage(bytes, total) ELSE old

\* lines 74-90: f.write(chunk), the count, the progress lock section
ThreadWrite(h, lim) ==
    /\ AtPc(h, "write")
    /\ \/ "OSError" \in lim.raises /\ Raise(h, "OSError")
       \/ LET bytes == threads[h].bytes_downloaded + threads[h].chunk
              total == threads[h].total_size
          IN IF download_tasks[h].status = "cancelling"
             THEN FinishCancelled(h)
             ELSE /\ download_tasks' =
                       [download_tasks EXCEPT ![h].bytes_downloaded = bytes,
                                              ![h].progress = WrittenProgress(bytes, total, @)]
                  /\ threads' = [threads EXCEPT ![h].pc = "iter", ![h].bytes_downloaded = bytes,
                                                ![h].chunk = 0]
                  /\ NoCleanup
                  /\ NoCallUnderLock

\* Faulty variant: a completed transfer always reports 100
CompletedProgressAlways(th, old) == Percent(100)

\* lines 100-101: the progress written when the task completes
CompletedProgress(th, old) ==
    IF th.total_size > 0 /\ th.bytes_downloaded = th.total_size THEN Percent(100) ELSE old

\* Faulty variant: a paused or resumed task is completed like a running one
ThreadFinishLenient(h) ==
    /\ AtPc(h, "post")
    /\ IF download_tasks[h].status \in {"downloading", "paused", "pending"}
       THEN /\ download_tasks' =
                 [download_tasks EXCEPT ![h].status = "completed",
                                        ![h].progress = CompletedProgress(threads[h], @)]
            /\ threads' = [threads EXCEPT ![h] = Returned(@)]
            /\ NoCleanup
            /\ NoCallUnderLock
       ELSE IF download_tasks[h].status = "cancelling" THEN FinishCancelled(h)
       ELSE /\ threads' = [threads EXCEPT ![h] = Returned(@)]
            /\ UNCHANGED <<download_tasks, cleanup_calls, file_exists, calls_under_lock>>

\* Faulty variant: the status is not looked at again after the loop
ThreadFinishUnchecked(h) ==
    /\ AtPc(h, "post")
    /\ download_tasks' =
         [download_tasks EXCEPT ![h].status = "completed",
                                ![h].progress = CompletedProgress(threads[h], @)]
    /\ threads' = [threads EXCEPT ![h] = Returned(@)]
    /\ NoCleanup
    /\ NoCallUnderLock

\* lines 96-107: after the loop
ThreadFinish(h) ==
    /\ AtPc(h, "post")
    /\ LET th == threads[h]
           st == download_tasks[h].status
       IN CASE st = "downloading" ->
                 /\ download_tasks' =
                      [download_tasks EXCEPT ![h].status = "completed",
                           ![h].progress = CompletedProgress(th, @)]
                 /\ threads' = [threads EXCEPT ![h] = Returned(@)]
                 /\ NoCleanup
                 /\ NoCallUnderLock
            [] st = "cancelling" -> FinishCancelled(h)
            [] OTHER ->
                 /\ threads' = [threads EXCEPT ![h] = Returned(@)]
                 /\ UNCHANGED <<download_tasks, cleanup_calls, file_exists, calls_under_lock>>

\* lines 124 and 133-134: the cleanup a handler makes after its lock section
ThreadHandlerCleanup(h) ==
    /\ h \in DOMAIN threads
    /\ threads[h].pc \in {"request_cleanup", "unexpected_cleanup"}
    /\ threads' = [threads EXCEPT ![h] = Returned(@)]
    /\ UNCHANGED <<download_tasks, calls_under_lock>>
    /\ IF threads[h].pc = "request_cleanup"
          \/ (file_exists[h] /\ threads[h].bytes_downloaded > 0)
       THEN Cleanup(h)
       ELSE NoCleanup

\* One step of the thread of task h (_download_file)
ThreadStep(h, lim) ==
    /\ \/ ThreadStart(h)
       \/ ThreadFetch(h, lim)
       \/ ThreadOpen(h, lim)
       \/ ThreadNextChunk(h, lim)
       \/ ThreadWrite(h, lim)
       \/ ThreadFinish(h)
       \/ ThreadHandlerCleanup(h)
    /\ UNCHANGED <<cancel_from, num_workers, queueVars>>

\* ------------------------------------------------- the Queue Manager
\* Faulty variant: the filter keeps what it should drop
RECURSIVE WithoutInverted(_, _)
WithoutInverted(s, id) ==
    IF s = <<>> THEN <<>>
    ELSE IF Head(s).qm_id # id THEN WithoutInverted(Tail(s), id)
    ELSE <<Head(s)>> \o WithoutInverted(Tail(s), id)

\* Faulty variant: the key compares the priority alone, and not strictly
KeyLessUnstable(a, b) == a.priority <= b.priority

\* The sort key of add_download: (priority, time_added)
KeyLess(a, b) ==
    \/ a.priority < b.priority
    \/ a.priority = b.priority /\ a.time_added < b.time_added

\* list.sort is stable: x goes behind every entry whose key is not greater
RECURSIVE InsertSorted(_, _)
InsertSorted(x, s) ==
    IF s = <<>> THEN <<x>>
    ELSE IF KeyLess(x, Head(s)) THEN <<x>> \o s
    ELSE <<Head(s)>> \o InsertSorted(x, Tail(s))

RECURSIVE SortInto(_, _)
SortInto(s, acc) ==
    IF s = <<>> THEN acc ELSE SortInto(Tail(s), InsertSorted(Head(s), acc))

\* pending_queue.sort(key=lambda x: (x['priority'], x['time_added']))
SortQueue(s) == SortInto(s, <<>>)

\* [task for task in pending_queue if task['qm_id'] != id]
RECURSIVE Without(_, _)
Without(s, id) ==
    IF s = <<>> THEN <<>>
    ELSE IF Head(s).qm_id = id THEN Without(Tail(s), id)
    ELSE <<Head(s)>> \o Without(Tail(s), id)

ActiveIds == DOMAIN active_downloads

\* Faulty variant: the qm_id comparison dropped, any active handle matches
ActiveWithAny(id) == ActiveIds

\* active_downloads is a dict keyed by handle: a set of handles and their entries
ActiveWith(id) == {h \in ActiveIds : active_downloads[h].qm_id = id}

\* status_info.get('status') of get_status(h), "None" for no record
Reported(h) == IF Known(h) THEN download_tasks[h].status ELSE "None"

InPending(id) == \E i \in 1..Len(pending_queue) : pending_queue[i].qm_id = id

\* Faulty variant: the label of an active entry is read from the pool
GetTaskStatusLive(id) ==
    IF InPending(id)
    THEN [qm_id |-> id, status |-> "queued", details |-> "Pending in queue"]
    ELSE IF ActiveWith(id) # {}
    THEN LET h == CHOOSE x \in ActiveWith(id) : TRUE
         IN [qm_id |-> id, downloader_id |-> h,
             status |-> IF Known(h) THEN Reported(h) ELSE "unknown",
             downloader_actual_status |-> IF Known(h) THEN Reported(h) ELSE "unknown",
             error |-> IF Known(h) THEN GetStatus(h).error ELSE NoError,
             details |-> "Active in downloader"]
    ELSE [qm_id |-> id, status |-> "not_found",
          details |-> "Task not found in pending or active."]

\* get_task_status(qm_id)
GetTaskStatus(id) ==
    IF InPending(id)
    THEN [qm_id |-> id, status |-> "queued", details |-> "Pending in queue"]
    ELSE IF ActiveWith(id) # {}
    THEN LET h == CHOOSE x \in ActiveWith(id) : TRUE
         IN [qm_id |-> id, downloader_id |-> h, status |-> active_downloads[h].status,
             downloader_actual_status |-> IF Known(h) THEN Reported(h) ELSE "unknown",
             error |-> IF Known(h) THEN GetStatus(h).error ELSE NoError,
             details |-> "Active in downloader"]
    ELSE [qm_id |-> id, status |-> "not_found",
          details |-> "Task not found in pending or active."]

\* get_queue_status()
GetQueueStatus ==
    [pending_tasks_count |-> Len(pending_queue),
     active_tasks_count |-> Cardinality(ActiveIds),
     pending_tasks |-> pending_queue,
     active_tasks |-> {[qm_id |-> active_downloads[h].qm_id, downloader_id |-> h,
                        status |-> active_downloads[h].status,
                        live_status |-> GetStatus(h)] : h \in ActiveIds}]

\* Faulty variant: add_download does not take the queue lock
AddDownloadUnlocked(priority) ==
    /\ \E t \in {now, now + 1} :
         /\ now' = t
         /\ pending_queue' =
              SortQueue(Append(pending_queue,
                  [qm_id |-> qm_id_counter + 1, priority |-> priority,
                   time_added |-> t, status |-> "queued"]))
    /\ qm_id_counter' = qm_id_counter + 1
    /\ UNCHANGED <<active_downloads, queue_lock, stop_event, processing_thread, loops,
                   completed_or_failed_downloader_ids, remove_result,
                   num_workers, controlVars, poolVars, calls_under_lock>>

\* add_download(url, filepath, priority); time.time() does not run backwards
AddDownload(priority) ==
    /\ queue_lock = 0
    /\ \E t \in {now, now + 1} :
         /\ now' = t
         /\ pending_queue' =
              SortQueue(Append(pending_queue,
                  [qm_id |-> qm_id_counter + 1, priority |-> priority,
                   time_added |-> t, status |-> "queued"]))
    /\ qm_id_counter' = qm_id_counter + 1
    /\ UNCHANGED <<active_downloads, queue_lock, stop_event, processing_thread, loops,
                   completed_or_failed_downloader_ids, remove_result,
                   num_workers, controlVars, poolVars, calls_under_lock>>

\* Faulty variant: the fall-through return reports success too
RemoveReturnsTrue(id) == "True"

\* the value remove_download returns: lines 49, 63 and 66
RemoveReturns(id) ==
    IF Len(Without(pending_queue, id)) # Len(pending_queue) THEN "True"
    ELSE IF ActiveWith(id) # {} THEN "True"
    ELSE "False"

\* remove_download(qm_id)
RemoveDownload(id) ==
    /\ queue_lock = 0
    /\ IF Len(Without(pending_queue, id)) # Len(pending_queue)
       THEN /\ pending_queue' = Without(pending_queue, id)
            /\ UNCHANGED <<poolVars, calls_under_lock>>
       ELSE /\ pending_queue' = Without(pending_queue, id)
            /\ IF ActiveWith(id) # {}
               THEN /\ CancelEffect(CHOOSE h \in ActiveWith(id) : TRUE)
                    /\ CallUnder("queue_lock", "cancel_download")
               ELSE UNCHANGED <<poolVars, calls_under_lock>>
    /\ remove_result' = RemoveReturns(id)
    /\ UNCHANGED <<active_downloads, queue_lock, qm_id_counter, now, stop_event,
                   processing_thread, loops, completed_or_failed_downloader_ids,
                   num_workers, controlVars>>

\* start_processing by one caller
StartProcessing ==
    /\ IF processing_thread # 0 /\ loops[processing_thread] # "dead"
       THEN UNCHANGED <<stop_event, processing_thread, loops,
                        completed_or_failed_downloader_ids>>
       ELSE /\ stop_event' = FALSE
            /\ loops' = Append(loops, "top")
            /\ completed_or_failed_downloader_ids' =
                  Append(completed_or_failed_downloader_ids, {})
            /\ processing_thread' = Len(loops) + 1
    /\ started' = TRUE
    /\ UNCHANGED <<pending_queue, active_downloads, queue_lock, qm_id_counter, now,
                   remove_result, num_workers, callers, joined, poolVars, calls_under_lock>>

\* line 70: while not self.stop_event.is_set()
LoopCheck(l) ==
    /\ l \in DOMAIN loops
    /\ loops[l] = "top"
    /\ loops' = [loops EXCEPT ![l] = IF stop_event THEN "dead" ELSE "acquire"]
    /\ UNCHANGED <<pending_queue, active_downloads, queue_lock, qm_id_counter, now,
                   stop_event, processing_thread, completed_or_failed_downloader_ids,
                   remove_result, num_workers, controlVars, poolVars, calls_under_lock>>

\* Faulty variant: a transfer being cancelled already ends an entry's stay
RetiredWithCancelling ==
    {h \in ActiveIds : Reported(h) \in TerminalStatuses \cup {"None", "cancelling"}}

\* Faulty variant: a cancelled transfer does not end an entry's stay
RetiredWithoutCancelled ==
    {h \in ActiveIds : Reported(h) \in {"completed", "failed", "None"}}

\* Faulty variant: only a completed transfer ends an entry's stay
RetiredCompletedOnly == {h \in ActiveIds : Reported(h) = "completed"}

\* lines 73-89: the handles whose pool status ends their stay in the active set
Retired == {h \in ActiveIds : Reported(h) \in TerminalStatuses \cup {"None"}}

\* Faulty variant: an entry whose transfer failed goes back to the backlog
LoopReconcileRetrying(l) ==
    /\ l \in DOMAIN loops
    /\ loops[l] = "acquire"
    /\ queue_lock = 0
    /\ queue_lock' = l
    /\ active_downloads' =
         [h \in ActiveIds \ Retired |-> [active_downloads[h] EXCEPT !.status = Reported(h)]]
    /\ completed_or_failed_downloader_ids' =
         [completed_or_failed_downloader_ids EXCEPT ![l] = Retired]
    /\ loops' = [loops EXCEPT ![l] = "dispatch"]
    /\ IF ActiveIds # {} THEN CallUnder("queue_lock", "get_status") ELSE NoCallUnderLock
    /\ LET failed == {h \in Retired : Reported(h) = "failed"}
       IN pending_queue' =
            IF failed = {} THEN pending_queue
            ELSE SortQueue(Append(pending_queue,
                     [active_downloads[CHOOSE h \in failed : TRUE] EXCEPT !.status = "queued"]))
    /\ UNCHANGED <<qm_id_counter, now, stop_event, processing_thread,
                   remove_result, num_workers, controlVars, poolVars>>

\* lines 71-94: take the lock, copy the pool's labels, delete the finished entries
LoopReconcile(l) ==
    /\ l \in DOMAIN loops
    /\ loops[l] = "acquire"
    /\ queue_lock = 0
    /\ queue_lock' = l
    /\ active_downloads' =
         [h \in ActiveIds \ Retired |-> [active_downloads[h] EXCEPT !.status = Reported(h)]]
    /\ completed_or_failed_downloader_ids' =
         [completed_or_failed_downloader_ids EXCEPT ![l] = Retired]
    /\ loops' = [loops EXCEPT ![l] = "dispatch"]
    /\ IF ActiveIds # {} THEN CallUnder("queue_lock", "get_status") ELSE NoCallUnderLock
    /\ UNCHANGED <<pending_queue, qm_id_counter, now, stop_event, processing_thread,
                   remove_result, num_workers, controlVars, poolVars>>

\* Faulty variant: the count still includes the entries just deleted
HasCapacityStale(n) ==
    n + Cardinality(completed_or_failed_downloader_ids[queue_lock]) < num_workers

\* Faulty variant: off by one in the capacity test
HasCapacityOffByOne(n) == n <= num_workers

\* line 98
HasCapacity(n) == n < num_workers

\* Faulty variant: the dispatched entry is not taken out of the backlog
LoopDispatchKeeping(l) ==
    /\ l \in DOMAIN loops
    /\ loops[l] = "dispatch"
    /\ queue_lock = l
    /\ queue_lock' = 0
    /\ loops' = [loops EXCEPT ![l] = "top"]
    /\ completed_or_failed_downloader_ids' =
         [completed_or_failed_downloader_ids EXCEPT ![l] = {}]
    /\ IF pending_queue # <<>> /\ HasCapacity(Cardinality(ActiveIds))
       THEN /\ StartDownloadEffect(NextHandle)
            /\ CallUnder("queue_lock", "start_download")
            /\ pending_queue' = pending_queue
            /\ active_downloads' =
                 [h \in ActiveIds \cup {NextHandle} |->
                    IF h = NextHandle
                    THEN [Head(pending_queue) EXCEPT !.status = "processing"]
                    ELSE active_downloads[h]]
       ELSE UNCHANGED <<pending_queue, active_downloads, poolVars, calls_under_lock>>
    /\ UNCHANGED <<qm_id_counter, now, stop_event, processing_thread, remove_result,
                   num_workers, controlVars>>

\* lines 96-125: dispatch one entry if there is one and capacity allows, release
\* the lock, sleep
LoopDispatch(l) ==
    /\ l \in DOMAIN loops
    /\ loops[l] = "dispatch"
    /\ queue_lock = l
    /\ queue_lock' = 0
    /\ loops' = [loops EXCEPT ![l] = "top"]
    /\ completed_or_failed_downloader_ids' =
         [completed_or_failed_downloader_ids EXCEPT ![l] = {}]
    /\ IF pending_queue # <<>> /\ HasCapacity(Cardinality(ActiveIds))
       THEN /\ StartDownloadEffect(NextHandle)
            /\ CallUnder("queue_lock", "start_download")
            /\ pending_queue' = Tail(pending_queue)
            /\ active_downloads' =
                 [h \in ActiveIds \cup {NextHandle} |->
                    IF h = NextHandle
                    THEN [Head(pending_queue) EXCEPT !.status = "processing"]
                    ELSE active_downloads[h]]
       ELSE UNCHANGED <<pending_queue, active_downloads, poolVars, calls_under_lock>>
    /\ UNCHANGED <<qm_id_counter, now, stop_event, processing_thread, remove_result,
                   num_workers, controlVars>>

\* ------------------------------------- start_processing, stop_processing
\* The threads that call start_processing and stop_processing. Neither method
\* takes a lock, so every read or write of self.processing_thread and
\* self.stop_event is a step of its own. A loop thread is "new" between its
\* construction (line 134) and Thread.start() (line 135).
Callers == 1..MaxCallers
NoCall == [pc |-> "idle", target |-> 0, overlap |-> FALSE]
InStart == {c \in Callers : callers[c].pc \in {"clear", "create", "start"}}

\* Thread.is_alive() of self.processing_thread; None is 0
IsAlive(l) == l # 0 /\ loops[l] \notin {"new", "dead"}

\* lines 129-131: return if the loop thread is alive
StartProcessingCheck(c) ==
    /\ callers[c].pc = "idle"
    /\ callers' = IF IsAlive(processing_thread) THEN callers
                  ELSE [callers EXCEPT ![c].pc = "clear"]
    /\ joined' = FALSE
    /\ started' = IF IsAlive(processing_thread) THEN TRUE ELSE started
    /\ UNCHANGED <<pending_queue, active_downloads, queue_lock, qm_id_counter, now,
                   stop_event, processing_thread, loops,
                   completed_or_failed_downloader_ids, remove_result,
                   num_workers, poolVars, calls_under_lock>>

\* line 133: self.stop_event.clear()
StartProcessingClear(c) ==
    /\ callers[c].pc = "clear"
    /\ stop_event' = FALSE
    /\ callers' = [callers EXCEPT ![c].pc = "create"]
    /\ UNCHANGED <<pending_queue, active_downloads, queue_lock, qm_id_counter, now,
                   processing_thread, loops, completed_or_failed_downloader_ids,
                   remove_result, joined, started, num_workers, poolVars, calls_under_lock>>

\* line 134: self.processing_thread = threading.Thread(...)
StartProcessingCreate(c) ==
    /\ callers[c].pc = "create"
    /\ loops' = Append(loops, "new")
    /\ completed_or_failed_downloader_ids' = Append(completed_or_failed_downloader_ids, {})
    /\ processing_thread' = Len(loops) + 1
    /\ callers' = [callers EXCEPT ![c].pc = "start"]
    /\ UNCHANGED <<pending_queue, active_downloads, queue_lock, qm_id_counter, now,
                   stop_event, remove_result, joined, started,
                   num_workers, poolVars, calls_under_lock>>

\* line 135: self.processing_thread.start(); starting a thread a second time
\* raises RuntimeError in the caller and starts nothing
StartProcessingStart(c) ==
    /\ callers[c].pc = "start"
    /\ loops' = IF loops[processing_thread] = "new"
                THEN [loops EXCEPT ![processing_thread] = "top"]
                ELSE loops
    /\ started' = IF loops[processing_thread] = "new" /\ ~callers[c].overlap
                  THEN TRUE ELSE started
    /\ callers' = [callers EXCEPT ![c] = NoCall]
    /\ UNCHANGED <<pending_queue, active_downloads, queue_lock, qm_id_counter, now,
                   stop_event, processing_thread, completed_or_failed_downloader_ids,
                   remove_result, joined, num_workers, poolVars, calls_under_lock>>

\* line 140: self.stop_event.set()
StopProcessingSet(c) ==
    /\ callers[c].pc = "idle"
    /\ stop_event' = TRUE
    /\ started' = FALSE
    /\ callers' = [d \in Callers |->
                     IF d = c THEN [callers[d] EXCEPT !.pc = "alive"]
                     ELSE IF d \in InStart THEN [callers[d] EXCEPT !.overlap = TRUE]
                     ELSE callers[d]]
    /\ UNCHANGED <<pending_queue, active_downloads, queue_lock, qm_id_counter, now,
                   processing_thread, loops, completed_or_failed_downloader_ids,
                   remove_result, joined, num_workers, poolVars, calls_under_lock>>

\* line 141: nothing to join unless the loop thread is alive
StopProcessingCheck(c) ==
    /\ callers[c].pc = "alive"
    /\ callers' = IF IsAlive(processing_thread)
                  THEN [callers EXCEPT ![c].pc = "call_join"]
                  ELSE [callers EXCEPT ![c] = NoCall]
    /\ UNCHANGED <<pending_queue, active_downloads, queue_lock, qm_id_counter, now,
                   stop_event, processing_thread, loops,
                   completed_or_failed_downloader_ids, remove_result, joined, started,
                   num_workers, poolVars, calls_under_lock>>

\* line 142: self.processing_thread.join(timeout=5) reads the attribute again;
\* joining a thread that was not started raises RuntimeError in the caller
StopProcessingCallJoin(c) ==
    /\ callers[c].pc = "call_join"
    /\ callers' = IF loops[processing_thread] = "new"
                  THEN [callers EXCEPT ![c] = NoCall]
                  ELSE [callers EXCEPT ![c] = [pc |-> "join", target |-> processing_thread,
                                               overlap |-> FALSE]]
    /\ UNCHANGED <<pending_queue, active_downloads, queue_lock, qm_id_counter, now,
                   stop_event, processing_thread, loops,
                   completed_or_failed_downloader_ids, remove_result, joined, started,
                   num_workers, poolVars, calls_under_lock>>

\* lines 142-145: join returns when its thread has ended or after 5 seconds,
\* whichever comes first; line 143 only prints
StopProcessingJoin(c) ==
    /\ callers[c].pc = "join"
    /\ \E timeout \in BOOLEAN :
         /\ ~timeout => loops[callers[c].target] = "dead"
         /\ joined' = IF loops[callers[c].target] = "dead" THEN TRUE ELSE joined
    /\ callers' = [callers EXCEPT ![c] = NoCall]
    /\ UNCHANGED <<pending_queue, active_downloads, queue_lock, qm_id_counter, now,
                   stop_event, processing_thread, loops,
                   completed_or_failed_downloader_ids, remove_result, started,
                   num_workers, poolVars, calls_under_lock>>

\* ------------------------------------------------------------------ Init
Init ==
    /\ num_workers \in 1..MaxWorkers
    /\ download_tasks = <<>>
    /\ threads = <<>>
    /\ cleanup_calls = <<>>
    /\ file_exists = <<>>
    /\ cancel_from = <<>>
    /\ calls_under_lock = {}
    /\ pending_queue = <<>>
    /\ active_downloads = <<>>
    /\ queue_lock = 0
    /\ qm_id_counter = 0
    /\ now = 0
    /\ stop_event = FALSE
    /\ processing_thread = 0
    /\ loops = <<>>
    /\ completed_or_failed_downloader_ids = <<>>
    /\ remove_result = "none"
    /\ callers = [c \in Callers |-> NoCall]
    /\ joined = FALSE
    /\ started = FALSE

\* ------------------------------------------- the pool and its callers
Handles == 1..MaxTasks

Next ==
    \/ NextHandle <= MaxTasks /\ StartDownload
    \/ \E h \in Handles : CancelDownload(h)
    \/ \E h \in Handles : PauseDownload(h)
    \/ \E h \in Handles : ResumeDownload(h)
    \/ \E h \in Handles : ThreadStep(h, PoolFetch)

\* Downloader(num_workers=1): the pool itself never reads num_workers
PoolInit == Init /\ num_workers = 1

Spec == PoolInit /\ [][Next]_vars

\* ------------------------------------------- one transfer and its callers
\* A pool given a single transfer. The tasks of a pool share no state: a
\* thread reads and writes download_tasks[download_id] and its own file only.
TransferNext ==
    \/ download_tasks = <<>> /\ StartDownload
    \/ \E h \in DOMAIN download_tasks : CancelDownload(h)
    \/ \E h \in DOMAIN download_tasks : PauseDownload(h)
    \/ \E h \in DOMAIN download_tasks : ResumeDownload(h)
    \/ \E h \in DOMAIN download_tasks : ThreadStep(h, TransferFetch)

TransferSpec == PoolInit /\ [][TransferNext]_vars

\* ------------------------------------- a pool with one worker, and submits
SubmitNext ==
    \/ NextHandle <= MaxSubmits /\ StartDownload
    \/ \E h \in DOMAIN download_tasks : ThreadStep(h, QueueFetch)

SubmitSpec == PoolInit /\ [][SubmitNext]_vars

\* --------------------------- the Queue Manager, its loop and the pool
QueueNext ==
    \/ qm_id_counter < MaxAdds /\ \E priority \in 0..MaxPriority : AddDownload(priority)
    \/ \E id \in 1..MaxAdds : RemoveDownload(id)
    \/ StartProcessing
    \/ \E l \in DOMAIN loops : LoopCheck(l)
    \/ \E l \in DOMAIN loops : LoopReconcile(l)
    \/ \E l \in DOMAIN loops : LoopDispatch(l)
    \/ \E h \in DOMAIN threads : ThreadStep(h, QueueFetch)

QueueSpec == Init /\ [][QueueNext]_vars

\* ------------- the Queue Manager started and stopped by several threads
ControlNext ==
    \/ qm_id_counter < CAdds /\ AddDownload(0)
    \/ \E id \in 1..CAdds : RemoveDownload(id)
    \/ \E c \in Callers :
         Len(loops) + Cardinality(InStart) < MaxLoops /\ StartProcessingCheck(c)
    \/ \E c \in Callers : StartProcessingClear(c)
    \/ \E c \in Callers : StartProcessingCreate(c)
    \/ \E c \in Callers : StartProcessingStart(c)
    \/ \E c \in Callers : StopProcessingSet(c)
    \/ \E c \in Callers : StopProcessingCheck(c)
    \/ \E c \in Callers : StopProcessingCallJoin(c)
    \/ \E c \in Callers : StopProcessingJoin(c)
    \/ \E l \in DOMAIN loops : LoopCheck(l)
    \/ \E l \in DOMAIN loops : LoopReconcile(l)
    \/ \E l \in DOMAIN loops : LoopDispatch(l)
    \/ \E h \in DOMAIN threads : ThreadStep(h, QueueFetch)

ControlSpec == PoolInit /\ [][ControlNext]_vars

\* Fair scheduling of the loop threads, the transfer threads and the callers
\* inside start_processing or stop_processing
ControlFairSpec ==
    /\ ControlSpec
    /\ \A l \in 1..MaxLoops :
         WF_vars(LoopCheck(l)) /\ WF_vars(LoopReconcile(l)) /\ WF_vars(LoopDispatch(l))
    /\ \A h \in 1..CAdds : WF_vars(h \in DOMAIN threads /\ ThreadStep(h, QueueFetch))
    /\ \A c \in Callers :
         /\ WF_vars(StartProcessingClear(c)) /\ WF_vars(StartProcessingCreate(c))
         /\ WF_vars(StartProcessingStart(c)) /\ WF_vars(StopProcessingCheck(c))
         /\ WF_vars(StopProcessingCallJoin(c)) /\ WF_vars(StopProcessingJoin(c))

\* ---- the Queue Manager and the pool, the pool also called by its users
\* The handles reach the users through get_queue_status and get_task_status,
\* so they can cancel, pause and resume the tasks the loop submitted.
UserNext ==
    \/ qm_id_counter < UAdds /\ AddDownload(0)
    \/ \E id \in 1..UAdds : RemoveDownload(id)
    \/ StartProcessing
    \/ \E l \in DOMAIN loops : LoopCheck(l)
    \/ \E l \in DOMAIN loops : LoopReconcile(l)
    \/ \E l \in DOMAIN loops : LoopDispatch(l)
    \/ \E h \in DOMAIN download_tasks : CancelDownload(h)
    \/ \E h \in DOMAIN download_tasks : PauseDownload(h)
    \/ \E h \in DOMAIN download_tasks : ResumeDownload(h)
    \/ \E h \in DOMAIN threads : ThreadStep(h, QueueFetch)

UserSpec == PoolInit /\ [][UserNext]_vars

\* The Queue Manager with one worker, its loop started and kept running, and
\* every loop thread and transfer thread scheduled fairly
QueueFairSpec ==
    /\ PoolInit /\ [][QueueNext]_vars
    /\ WF_vars(StartProcessing)
    /\ \A l \in 1..MaxLoops :
         WF_vars(LoopCheck(l)) /\ WF_vars(LoopReconcile(l)) /\ WF_vars(LoopDispatch(l))
    /\ \A h \in 1..MaxAdds : WF_vars(h \in DOMAIN threads /\ ThreadStep(h, QueueFetch))

\* Fair scheduling of every transfer thread
FairSpec == PoolInit /\ [][Next]_vars /\ \A h \in Handles : WF_vars(ThreadStep(h, PoolFetch))

\* ================================================================ claims
Status(h) == download_tasks[h].status
Tasks == DOMAIN download_tasks
ThreadDone(h) == threads[h].pc = "done"

\* C1: whenever the queue lock is free, the active set holds at most
\* num_workers entries.
C1_ActiveWithinCapacity ==
    queue_lock = 0 => Cardinality(ActiveIds) <= num_workers

\* the active set is full and an entry waits in the backlog
C1_Witness ==
    /\ queue_lock = 0
    /\ Cardinality(ActiveIds) = num_workers
    /\ pending_queue # <<>>
    /\ Len(download_tasks) = num_workers

\* A reconciliation cycle ends: the loop thread releases the lock
CycleEnds == \E l \in DOMAIN loops : loops[l] = "dispatch" /\ loops'[l] = "top"

\* C2: at the end of every reconciliation cycle the backlog is empty or the
\* active set holds num_workers entries.
C2_CycleFillsCapacity ==
    [][CycleEnds =>
         (pending_queue' = <<>> \/ Cardinality(DOMAIN active_downloads') = num_workers)]_vars

\* (priority ascending, arrival order ascending); qm_id counts arrivals
Before(a, b) ==
    \/ a.priority < b.priority
    \/ a.priority = b.priority /\ a.qm_id < b.qm_id

Ordered(q) == \A i, j \in 1..Len(q) : i < j => Before(q[i], q[j])

\* A step that promotes an entry: a handle joins the active set
Promotion == DOMAIN active_downloads' \ ActiveIds # {}
Promoted == active_downloads'[CHOOSE h \in DOMAIN active_downloads' \ ActiveIds : TRUE]

\* C3: the backlog is ordered by (priority, arrival) whenever the queue lock
\* is free, and every promotion takes the least queued entry in that order.
C3_BacklogOrdered ==
    /\ [](queue_lock = 0 => Ordered(pending_queue))
    /\ [][Promotion =>
            /\ \E i \in 1..Len(pending_queue) : pending_queue[i].qm_id = Promoted.qm_id
            /\ \A i \in 1..Len(pending_queue) :
                   \/ pending_queue[i].qm_id = Promoted.qm_id
                   \/ Before(Promoted, pending_queue[i])
            /\ Ordered(pending_queue')]_vars

\* an entry that arrived later was promoted ahead of one still queued
C3_Witness ==
    /\ queue_lock = 0
    /\ \E h \in ActiveIds : \E i \in 1..Len(pending_queue) :
          /\ active_downloads[h].qm_id > pending_queue[i].qm_id
          /\ active_downloads[h].priority < pending_queue[i].priority

\* C4: a task in 'cancelling' goes nowhere but to 'cancelled'.
C4_CancellingOnlyToCancelled ==
    [][\A h \in Tasks :
          Status(h) = "cancelling" =>
              download_tasks'[h].status \in {"cancelling", "cancelled"}]_vars

\* C5: a task cancelled while 'downloading' is, once terminal, 'cancelled'
\* and its destination was cleaned up.
C5_CancelledDownloadEndsCancelled ==
    \A h \in Tasks :
        (cancel_from[h] = "downloading" /\ Status(h) \in TerminalStatuses)
            => (Status(h) = "cancelled" /\ cleanup_calls[h] >= 1)

\* C6 as stated: no step changes the label of a task in a terminal state.
C6_TerminalAbsorbing ==
    [][\A h \in Tasks :
          Status(h) \in TerminalStatuses => download_tasks'[h].status = Status(h)]_vars

\* C6, amended: the label of a task in a terminal state changes only to
\* 'cancelled', and only by cancel (no thread takes a step).
C6_TerminalOnlyRelabelledCancelled ==
    [][\A h \in Tasks :
          Status(h) \in TerminalStatuses =>
              \/ download_tasks'[h].status = Status(h)
              \/ /\ download_tasks'[h].status = "cancelled"
                 /\ UNCHANGED <<threads, cleanup_calls, file_exists>>]_vars

\* a completed task that cancel re-labelled: it never met an exception, a
\* cancellation checkpoint or a cleanup
C6_Witness ==
    \E h \in Tasks :
        /\ Status(h) = "cancelled"
        /\ ThreadDone(h)
        /\ threads[h].raised = "none"
        /\ cancel_from[h] = "none"
        /\ cleanup_calls[h] = 0

\* C7: cancel on a task in a terminal state leaves it 'cancelled' and changes
\* nothing else: no other field, no other task, no thread, no cleanup, no file.
C7_CancelOnTerminal ==
    [][\A h \in Tasks :
          (Status(h) \in TerminalStatuses /\ CancelDownload(h)) =>
              /\ download_tasks' = [download_tasks EXCEPT ![h].status = "cancelled"]
              /\ UNCHANGED <<threads, cleanup_calls, file_exists>>]_vars

\* a failed transfer that had written bytes, re-labelled by cancel: the error,
\* the byte count and the file are as the thread left them
C7_Witness ==
    \E h \in Tasks :
        /\ Status(h) = "cancelled"
        /\ cancel_from[h] = "none"
        /\ download_tasks[h].error # NoError
        /\ download_tasks[h].bytes_downloaded > 0
        /\ file_exists[h]

\* C8: under fair scheduling, a task cancelled while pending, downloading or
\* paused is eventually 'cancelled'.
C8_CancelEventuallyCancelled ==
    \A h \in Handles :
        (h \in Tasks /\ cancel_from[h] # "none") ~> (h \in Tasks /\ Status(h) = "cancelled")

\* C9 as stated: the error field is set only in state 'failed'.
C9_ErrorOnlyWhenFailed ==
    \A h \in Tasks : download_tasks[h].error # NoError => Status(h) = "failed"

\* C9, amended: the error field is set only in state 'failed', or in state
\* 'cancelled' of a task whose thread ended with an exception (cancel
\* re-labelled the failed task and kept its error).
C9_ErrorOnlyAfterFailure ==
    \A h \in Tasks :
        download_tasks[h].error # NoError =>
            \/ Status(h) = "failed"
            \/ Status(h) = "cancelled" /\ threads[h].raised # "none"

\* cancel re-labelled a failed task: 'cancelled' with the error still set
C9_Witness ==
    \E h \in Tasks : Status(h) = "cancelled" /\ download_tasks[h].error # NoError

\* C10: a transfer ended by a transport error is finalized 'failed' with the
\* error's message, and the cleanup collaborator was invoked exactly once.
C10_TransportErrorFailsAndCleans ==
    \A h \in Tasks :
        (threads[h].raised = "RequestException" /\ ThreadDone(h)) =>
            /\ Status(h) \in {"failed", "cancelled"}
            /\ download_tasks[h].error # NoError
            /\ download_tasks[h].error[2] = "RequestException"
            /\ cleanup_calls[h] = 1

\* The pool operations the Queue Manager calls, and the collaborators the
\* transfer thread calls
PoolOperations == {"start_download", "get_status", "cancel_download"}
Collaborators == {"requests.get", "write", "cleanup_incomplete_download"}

\* C11: no pool operation was ever called with the queue lock held, and the
\* fetch, a file write or the cleanup collaborator was never called with the
\* pool lock held.
C11_NoLockHeldAcrossCalls ==
    \A c \in calls_under_lock :
        /\ ~(c[1] = "queue_lock" /\ c[2] \in PoolOperations)
        /\ ~(c[1] = "lock" /\ c[2] \in Collaborators)

C14_CompletedReportsFullProgress ==
    \A h \in Tasks :
        (/\ GetStatus(h).status = "completed"
         /\ threads[h].raised = "none"
         /\ GetStatus(h).total_size > 0
         /\ GetStatus(h).bytes_downloaded > 0)
            => GetStatus(h).progress = Percent(100)

\* C15: a task whose total size is known never has more bytes than that.
C15_BytesWithinTotal ==
    \A h \in Tasks :
        download_tasks[h].total_size > 0 =>
            download_tasks[h].bytes_downloaded <= download_tasks[h].total_size

\* C16: the byte count of a task never decreases in a step taken before the
\* task is terminal; the header section, which writes 0, finds the count at 0.
C16_BytesNeverDecrease ==
    [][\A h \in Tasks :
          Status(h) \notin TerminalStatuses =>
              download_tasks'[h].bytes_downloaded >= download_tasks[h].bytes_downloaded]_vars

\* two chunks were counted one after the other, the task still not terminal
C16_Witness ==
    \E h \in Tasks :
        /\ Status(h) \notin TerminalStatuses
        /\ download_tasks[h].total_size > 0
        /\ download_tasks[h].bytes_downloaded > TChunk

Ids == 1..MaxAdds
Issued(id) == id <= qm_id_counter
\* the ids get_queue_status lists
Listed ==
    {GetQueueStatus.pending_tasks[i].qm_id : i \in 1..Len(GetQueueStatus.pending_tasks)}
        \cup {t.qm_id : t \in GetQueueStatus.active_tasks}
Others(id) == SelectSeq(pending_queue, LAMBDA e : e.qm_id # id)

\* C17: remove_download of a queued entry returns True and takes it out of the
\* backlog: the queue status no longer lists it, its task status is
\* not_found, the pool is not called, the other queued entries keep their
\* order; and the entry is never submitted later, since an id that has left
\* the backlog never re-enters it and every promotion takes a queued entry.
C17_RemoveQueued ==
    /\ [][\A id \in Ids :
             (InPending(id) /\ RemoveDownload(id)) =>
                 /\ remove_result' = "True"
                 /\ pending_queue' = Others(id)
                 /\ id \notin Listed'
                 /\ GetTaskStatus(id)'.status = "not_found"
                 /\ UNCHANGED <<poolVars, calls_under_lock, active_downloads>>]_vars
    /\ [][\A id \in Ids : (Issued(id) /\ ~InPending(id)) => ~InPending(id)']_vars
    /\ [][Promotion => InPending(Promoted.qm_id)]_vars

\* an entry was removed from the backlog before anything was submitted, and
\* another entry is still queued
C17_Witness ==
    /\ remove_result = "True"
    /\ download_tasks = <<>>
    /\ pending_queue # <<>>
    /\ \E id \in Ids : Issued(id) /\ ~InPending(id) /\ GetTaskStatus(id).status = "not_found"

IsActive(id) == \E h \in ActiveIds : active_downloads[h].qm_id = id
Reconciling == \E l \in DOMAIN loops : loops[l] = "acquire" /\ loops'[l] = "dispatch"

\* C18: remove_download of an active entry cancels the pool task of the one
\* handle associated with the id and no other, returns True and leaves the
\* active set as it is; an entry leaves the active set only in a
\* reconciliation that finds its pool status terminal or missing.
C18_RemoveActive ==
    /\ [][\A id \in Ids :
             (~InPending(id) /\ IsActive(id) /\ RemoveDownload(id)) =>
                 \E h \in ActiveIds :
                     /\ active_downloads[h].qm_id = id
                     /\ \A g \in ActiveIds : active_downloads[g].qm_id = id => g = h
                     /\ download_tasks' =
                          [download_tasks EXCEPT ![h].status = CancelStatus(@)]
                     /\ <<"queue_lock", "cancel_download">> \in calls_under_lock'
                     /\ remove_result' = "True"
                     /\ UNCHANGED <<active_downloads, pending_queue, threads,
                                    cleanup_calls, file_exists>>]_vars
    /\ [][\A h \in ActiveIds :
             h \notin DOMAIN active_downloads' =>
                 Reconciling /\ Reported(h) \in TerminalStatuses \cup {"None"}]_vars

\* the second of two active entries was removed: its pool task is cancelled,
\* the first one's is not, and both entries are still in the active set
C18_Witness ==
    /\ remove_result = "True"
    /\ \E h, g \in ActiveIds :
          /\ g < h
          /\ cancel_from[h] = "downloading"
          /\ Status(h) = "cancelled"
          /\ cancel_from[g] = "none"
          /\ Status(g) = "downloading"

\* C19: remove_download of an id that is neither queued nor active returns
\* False and changes nothing: the backlog, the active set and the pool are as
\* before, and no pool operation is called.
C19_RemoveUnknown ==
    [][\A id \in Ids :
          (~InPending(id) /\ ~IsActive(id) /\ RemoveDownload(id)) =>
              /\ remove_result' = "False"
              /\ UNCHANGED <<pending_queue, active_downloads, poolVars, calls_under_lock>>]_vars

\* the last remove_download returned False, with one id retired or removed
\* earlier and one never issued
C19_Witness ==
    /\ remove_result = "False"
    /\ \E id \in Ids : Issued(id) /\ ~InPending(id) /\ ~IsActive(id)
    /\ \E id \in Ids : ~Issued(id)

Dispatching(l) == loops[l] = "dispatch" /\ loops'[l] = "top"

\* C20: the reconciliation that finds the pool task of an active entry
\* completed, failed or cancelled deletes the entry, and the same cycle, if
\* the backlog is not empty, promotes its first entry, which no queued entry
\* precedes in (priority, arrival) order.
C20_FinishedRetiredAndReplaced ==
    /\ [][\A l \in DOMAIN loops :
             (loops[l] = "acquire" /\ loops'[l] = "dispatch") =>
                 \A h \in ActiveIds :
                     Reported(h) \in TerminalStatuses =>
                         /\ h \notin DOMAIN active_downloads'
                         /\ h \in completed_or_failed_downloader_ids'[l]]_vars
    /\ [][\A l \in DOMAIN loops :
             (/\ Dispatching(l)
              /\ completed_or_failed_downloader_ids[l] # {}
              /\ pending_queue # <<>>) =>
                 /\ Promotion
                 /\ Promoted.qm_id = Head(pending_queue).qm_id
                 /\ \A i \in 1..Len(pending_queue) : ~Before(pending_queue[i], Promoted)
                 /\ pending_queue' = Tail(pending_queue)]_vars

\* one worker: the second entry was submitted, so the cycle that deleted the
\* first, finished one made room for it
C20_Witness ==
    /\ queue_lock = 0
    /\ num_workers = 1
    /\ \E h \in ActiveIds : \E g \in Tasks \ ActiveIds :
          /\ g < h
          /\ Status(g) \in TerminalStatuses
          /\ Status(h) = "downloading"
          /\ threads[h].pc = "start"

HandleOf(id) == CHOOSE h \in ActiveIds : active_downloads[h].qm_id = id

\* C21: get_task_status gives 'queued' for a queued entry; for an active
\* entry its handle, the label 'processing', the pool's status and error of
\* that handle and the pool's live status with its progress; and 'not_found'
\* for any other id.
C21_TaskStatusFields ==
    queue_lock = 0 =>
        \A id \in Ids :
            LET r == GetTaskStatus(id)
            IN IF InPending(id) THEN r.status = "queued"
               ELSE IF IsActive(id)
               THEN /\ r.downloader_id = HandleOf(id)
                    /\ r.status = "processing"
                    /\ r.downloader_actual_status = Status(HandleOf(id))
                    /\ r.error = download_tasks[HandleOf(id)].error
                    /\ "live_status" \in DOMAIN r
                    /\ r.live_status.progress = download_tasks[HandleOf(id)].progress
               ELSE r.status = "not_found"

\* C22: pause changes a task only from 'pending' or 'downloading', to
\* 'paused'; resume changes it only from 'paused', to 'pending'; in any other
\* state and for an unknown handle the task table stays as it is; and neither
\* touches a thread, a file or the cleanup collaborator.
C22_PauseResumeLegalOnly ==
    [][\A h \in Handles :
          /\ PauseDownload(h) =>
                /\ download_tasks' =
                      IF h \in Tasks /\ Status(h) \in {"pending", "downloading"}
                      THEN [download_tasks EXCEPT ![h].status = "paused"]
                      ELSE download_tasks
                /\ UNCHANGED <<threads, cleanup_calls, file_exists>>
          /\ ResumeDownload(h) =>
                /\ download_tasks' =
                      IF h \in Tasks /\ Status(h) = "paused"
                      THEN [download_tasks EXCEPT ![h].status = "pending"]
                      ELSE download_tasks
                /\ UNCHANGED <<threads, cleanup_calls, file_exists>>]_vars

\* a transfer paused and resumed while its thread writes: 'pending', a state
\* only resume gives to a task whose thread has started
C22_Witness ==
    \E h \in Tasks :
        /\ Status(h) = "pending"
        /\ threads[h].pc = "write"

Submitted == Len(download_tasks') > Len(download_tasks)

\* C23: start_download can always be called, however many transfers run; it
\* adds one task under a handle no task has, leaves the other tasks alone,
\* and the new task is 'downloading' with its thread at its first step; a
\* task whose thread has not taken a step is 'downloading'.
C23_SubmitAlwaysAccepts ==
    /\ [](ENABLED StartDownload)
    /\ [][Submitted =>
            /\ Len(download_tasks') = Len(download_tasks) + 1
            /\ Len(download_tasks') \notin Tasks
            /\ \A g \in Tasks : download_tasks'[g] = download_tasks[g]
            /\ download_tasks'[Len(download_tasks')] = [NewTask EXCEPT !.status = "downloading"]
            /\ threads'[Len(download_tasks')] = NewThread]_vars
    /\ [](\A h \in Tasks : threads[h] = NewThread => Status(h) = "downloading")

\* more transfers run than the pool has workers
C23_Witness ==
    /\ Cardinality(Running) > num_workers
    /\ \A h \in Running : Status(h) = "downloading"

\* The loop threads that run: started and not yet returned
AliveLoops == {l \in DOMAIN loops : IsAlive(l)}

\* C24: at most one reconciliation loop thread is alive at any time, whatever
\* the interleaving of start_processing and stop_processing calls.
C24_AtMostOneLoopAlive == Cardinality(AliveLoops) <= 1

\* stop_processing has returned with its thread joined, no start_processing
\* has been called since, and none is in progress
Stopped == joined /\ InStart = {}

\* C25: once stop_event is set every running loop thread exits (or the event
\* is cleared by a new start); while the manager is stopped no entry enters or
\* leaves the active set and nothing is submitted to the pool; add_download
\* and remove_download stay available.
C25_StopHaltsLoop ==
    /\ \A l \in 1..MaxLoops :
         (l \in AliveLoops /\ stop_event) ~> (l \notin AliveLoops \/ ~stop_event)
    /\ [][Stopped /\ Stopped' => /\ DOMAIN active_downloads' = DOMAIN active_downloads
                                 /\ Len(download_tasks') = Len(download_tasks)]_vars
    /\ [](Stopped /\ queue_lock = 0 => ENABLED AddDownload(0) /\ ENABLED RemoveDownload(1))

\* the task table a cancel_download(h) made now would leave
AfterCancel(h) ==
    IF Known(h) THEN SetStatus(h, CancelStatus(download_tasks[h].status))
    ELSE download_tasks

\* C26: a cancel_download(h) made right after a cancel_download(h) leaves the
\* task table as the first call left it; on a 'cancelling' task and on an
\* unknown handle the call changes nothing, and it can always be made.
C26_CancelIdempotent ==
    /\ [][\A h \in Handles :
            CancelDownload(h) =>
                /\ AfterCancel(h)' = download_tasks'
                /\ (~Known(h) \/ Status(h) = "cancelling") => UNCHANGED poolVars]_vars
    /\ [](\A h \in Handles : ENABLED CancelDownload(h))

\* cancel has acted on a paused task whose thread still runs: a further
\* cancel finds it 'cancelling'
C26_Witness ==
    \E h \in Tasks :
        /\ Status(h) = "cancelling"
        /\ cancel_from[h] = "paused"
        /\ ~ThreadDone(h)

\* C27: a reconciliation deletes every active entry whose pool status it reads
\* as completed, failed, cancelled or missing, and gives every other active
\* entry that status as its label; until the cycle ends with the release of
\* the lock nothing else touches those entries, and the end itself leaves
\* them as they are.
C27_CycleRetiresAndLabels ==
    /\ [][Reconciling =>
            \A h \in ActiveIds :
                IF Reported(h) \in TerminalStatuses \cup {"None"}
                THEN h \notin DOMAIN active_downloads'
                ELSE /\ h \in DOMAIN active_downloads'
                     /\ active_downloads'[h] =
                            [active_downloads[h] EXCEPT !.status = Reported(h)]]_vars
    /\ [][queue_lock # 0 /\ queue_lock' # 0 =>
            active_downloads' = active_downloads]_vars
    /\ [][\A l \in DOMAIN loops :
            Dispatching(l) =>
                /\ \A h \in ActiveIds : /\ h \in DOMAIN active_downloads'
                                        /\ active_downloads'[h] = active_downloads[h]
                /\ \A h \in completed_or_failed_downloader_ids[l] :
                        h \notin DOMAIN active_downloads']_vars

\* a cycle about to end that deleted one entry and relabelled another
C27_Witness ==
    \E l \in DOMAIN loops :
        /\ loops[l] = "dispatch"
        /\ completed_or_failed_downloader_ids[l] # {}
        /\ \E h \in ActiveIds : active_downloads[h].status \in {"downloading", "cancelling"}

\* the thread of h leaves the lock section that follows its chunk loop
Finalizing(h) == AtPc(h, "post") /\ threads'[h].pc = "done"

\* C28: the thread that has left its chunk loop marks the task 'completed'
\* only if it finds it 'downloading'; a task it finds 'cancelling' becomes
\* 'cancelled' and cleanup_incomplete_download is called once more; a task
\* that is 'cancelling' or 'cancelled' is never 'completed' in the next state.
C28_LateCancelWins ==
    /\ [][\A h \in Handles :
            Finalizing(h) =>
                /\ Status(h)' = "completed" => Status(h) = "downloading"
                /\ Status(h) = "cancelling" =>
                       /\ Status(h)' = "cancelled"
                       /\ cleanup_calls'[h] = cleanup_calls[h] + 1]_vars
    /\ [][\A h \in Tasks :
            Status(h) \in {"cancelling", "cancelled"} => Status(h)' # "completed"]_vars

\* every declared byte was written and checkpointed, the cancel came after
\* that, and the thread ended the task as 'cancelled' with one cleanup
C28_Witness ==
    \E h \in Tasks :
        /\ ThreadDone(h)
        /\ Status(h) = "cancelled"
        /\ cancel_from[h] = "downloading"
        /\ download_tasks[h].total_size > 0
        /\ download_tasks[h].bytes_downloaded = download_tasks[h].total_size
        /\ cleanup_calls[h] = 1

\* C29: a thread ended by an exception after it had written and counted at
\* least one chunk has called cleanup_incomplete_download.
C29_FailedMidStreamCleans ==
    \A h \in Tasks :
        (/\ ThreadDone(h)
         /\ threads[h].raised # "none"
         /\ download_tasks[h].bytes_downloaded > 0) => cleanup_calls[h] >= 1

\* os.makedirs or open raises in the thread of h: the thread is before its
\* first chunk and the step records an OSError
PrepareFails(h) ==
    /\ h \in DOMAIN threads
    /\ threads[h].pc \in {"fetch", "open"}
    /\ threads'[h].raised = "OSError"

\* C30: when creating the directory or opening the file fails, the same step
\* marks the task 'failed' with the error's message in the error field and
\* the thread returns: no cleanup call, no change to the file, no other task
\* touched, and start_download can still be called.
C30_PrepareFailureFails ==
    /\ [][\A h \in Handles :
            PrepareFails(h) =>
                /\ download_tasks' = [download_tasks EXCEPT ![h].status = "failed",
                                          ![h].error = <<"File/Directory error: ", "OSError">>]
                /\ threads'[h].pc = "done"
                /\ UNCHANGED <<cleanup_calls, file_exists>>]_vars
    /\ [](ENABLED StartDownload)

\* the directory or the file could not be prepared: the task has failed, no
\* file was created and no cleanup was called
C30_Witness ==
    \E h \in Tasks :
        /\ ThreadDone(h)
        /\ threads[h].raised = "OSError"
        /\ Status(h) = "failed"
        /\ download_tasks[h].error # NoError
        /\ ~file_exists[h]
        /\ cleanup_calls[h] = 0

\* the backlog positions and the active handles that hold id
PendingAt(id) == {i \in 1..Len(pending_queue) : pending_queue[i].qm_id = id}
Held(id) == PendingAt(id) # {} \/ ActiveWith(id) # {}

\* C31: with the queue lock free every issued id is held at most once, in the
\* backlog or under one handle of the active set, and an id never issued is
\* held nowhere; an id stops being held only by remove_download while queued
\* or by a reconciliation that reads its handle as terminal or missing, and
\* is not held again; a queued id that becomes active is the entry promoted,
\* with every field but the label as it was.
C31_EachIdInOnePlace ==
    /\ [](queue_lock = 0 =>
            \A id \in Ids :
                /\ Cardinality(PendingAt(id)) + Cardinality(ActiveWith(id)) <= 1
                /\ ~Issued(id) => ~Held(id))
    /\ [][\A id \in Ids :
            /\ (Held(id) /\ ~Held(id)') =>
                   \/ PendingAt(id) # {} /\ RemoveDownload(id)
                   \/ /\ Reconciling
                      /\ \E h \in ActiveWith(id) : Reported(h) \in TerminalStatuses \cup {"None"}
            /\ (Issued(id) /\ ~Held(id)) => ~Held(id)'
            /\ (PendingAt(id) # {} /\ ActiveWith(id)' # {}) =>
                   /\ PendingAt(id)' = {}
                   /\ \E l \in DOMAIN loops : Dispatching(l)
                   /\ \E i \in PendingAt(id) : \E h \in ActiveWith(id)' :
                         active_downloads'[h] = [pending_queue[i] EXCEPT !.status = "processing"]]_vars

\* one id was promoted and retired, another is active under the second
\* handle, and the lock is free
C31_Witness ==
    /\ queue_lock = 0
    /\ Len(download_tasks) = 2
    /\ \E id \in Ids : Issued(id) /\ ~Held(id)
    /\ \E id \in Ids : ActiveWith(id) = {2}

\* C32: the pool has been given no more tasks than ids have left the backlog;
\* every submit takes one entry out of the backlog and an id that has left
\* the backlog never returns to it; a thread that has returned takes no
\* further step and a failed or cancelled task stays failed or cancelled.
C32_NoRetry ==
    /\ [](Len(download_tasks) + Len(pending_queue) <= qm_id_counter)
    /\ [][/\ Len(download_tasks') # Len(download_tasks) =>
                /\ Len(download_tasks') = Len(download_tasks) + 1
                /\ pending_queue # <<>>
                /\ pending_queue' = Tail(pending_queue)
           /\ \A id \in Ids :
                (Issued(id) /\ PendingAt(id) = {}) => PendingAt(id)' = {}
           /\ \A h \in Tasks :
                /\ ThreadDone(h) => threads'[h] = threads[h]
                /\ Status(h) \in {"failed", "cancelled"} =>
                       Status(h)' \in {"failed", "cancelled"}]_vars

\* the transfer of the first entry failed and was retired, and the pool holds
\* no second task for it: the one other task belongs to the second entry
C32_Witness ==
    /\ queue_lock = 0
    /\ qm_id_counter = 2
    /\ pending_queue = <<>>
    /\ Len(download_tasks) = 2
    /\ Status(1) = "failed" /\ ThreadDone(1)
    /\ 1 \notin ActiveIds
    /\ 2 \in ActiveIds

\* C33: no step takes a record out of download_tasks: not a pool operation,
\* not a transfer thread, and not the Queue Manager, which deletes a retired
\* entry from its own active set only.
C33_PoolNeverEvicts ==
    [][\A h \in Tasks : h \in DOMAIN download_tasks']_vars

\* both entries were retired by the loop after their transfers ended, and
\* the pool still holds both records
C33_Witness ==
    /\ Len(download_tasks) = 2
    /\ ActiveIds = {}
    /\ \A h \in Tasks : Status(h) \in TerminalStatuses /\ ThreadDone(h)

\* the loop threads inside an iteration: between taking and releasing the lock
InIteration == {l \in DOMAIN loops : loops[l] = "dispatch"}

\* C34: at most one loop thread is inside an iteration, and it is the holder
\* of the queue lock; while the lock is held from one state to the next the
\* backlog and the active set do not change, so add_download and
\* remove_download take effect only between iterations.
C34_QueueMutationsExclusive ==
    /\ [](/\ Cardinality(InIteration) <= 1
          /\ \A l \in DOMAIN loops : loops[l] = "dispatch" <=> queue_lock = l)
    /\ [][queue_lock # 0 /\ queue_lock' # 0 =>
            UNCHANGED <<pending_queue, active_downloads, qm_id_counter, remove_result>>]_vars
    /\ [][(qm_id_counter' # qm_id_counter \/ Len(pending_queue') > Len(pending_queue)) =>
            queue_lock = 0 /\ queue_lock' = 0]_vars

\* two loop threads run: one is inside an iteration with an entry waiting in
\* the backlog, the other waits for the lock
C34_Witness ==
    /\ pending_queue # <<>>
    /\ \E l, m \in DOMAIN loops : loops[l] = "dispatch" /\ loops[m] = "acquire"

\* the thread of h has returned and left the task in a state that is not terminal
Wedged(h) == ThreadDone(h) /\ Status(h) \notin TerminalStatuses

Unfinished == {h \in Tasks : Status(h) \notin TerminalStatuses}

\* C37: with the queue lock free every pool task that is not completed,
\* failed or cancelled has its entry in the active set, and there are at most
\* num_workers such tasks.
C37_UnfinishedTasksAreActive ==
    queue_lock = 0 =>
        /\ Unfinished \subseteq ActiveIds
        /\ Cardinality(Unfinished) <= num_workers

\* one worker: the first task has ended and was retired, the second was
\* submitted in its place and is paused by a user
C37_Witness ==
    /\ queue_lock = 0
    /\ num_workers = 1
    /\ Len(download_tasks) = 2
    /\ ActiveIds = {2}
    /\ Status(1) \in TerminalStatuses
    /\ Status(2) = "paused"

\* C38: every queued entry becomes active unless it is removed from the
\* backlog first, and every active entry is retired, whatever its priority.
C38_EveryEntryServed ==
    \A id \in Ids :
        /\ (PendingAt(id) # {}) ~> (ActiveWith(id) # {} \/ ~Held(id))
        /\ (ActiveWith(id) # {}) ~> (ActiveWith(id) = {})

\* the entry added first with the larger priority number waited for the
\* entry added after it, and is now active under the second handle
C38_Witness ==
    /\ ActiveIds = {2}
    /\ active_downloads[2].qm_id = 1
    /\ active_downloads[2].priority = MaxPriority
    /\ Status(1) \in TerminalStatuses

\* the labels an entry of the active set can carry while its task is not over
LiveLabels == {"processing", "pending", "downloading", "paused", "cancelling"}

\* C39: with the queue lock free, so that get_queue_status or get_task_status
\* can run, the label either call returns for an active entry is
\* 'processing' or a pool status that is not terminal.
C39_NoTerminalLabelObserved ==
    queue_lock = 0 =>
        /\ \A t \in GetQueueStatus.active_tasks : t.status \in LiveLabels
        /\ \A id \in Ids :
              (~InPending(id) /\ ActiveWith(id) # {}) => GetTaskStatus(id).status \in LiveLabels

\* the transfer has completed since the last reconciliation: a caller sees
\* the entry labelled 'downloading' next to the pool's 'completed'
C39_Witness ==
    /\ queue_lock = 0
    /\ \E id \in Ids :
          /\ ActiveWith(id) # {}
          /\ GetTaskStatus(id).status = "downloading"
          /\ GetTaskStatus(id).downloader_actual_status = "completed"

\* C40: after start_processing has returned and with no stop_processing call
\* since, a loop thread runs and stop_event is clear.
C40_StartedMeansRunning ==
    started => AliveLoops # {} /\ ~stop_event

====
